---- MODULE Spec2Model ----
(***************************************************************************)
(* Model of the hand-written numerical core of the repository:             *)
(*   - calculate_trading_signal  (api/analyzers/recommendation.py)         *)
(*   - fractional_diff, find_min_ffd (api/analyzers/signal_processing.py)  *)
(*                                                                         *)
(* Numbers are exact rationals kept as scaled integers:                    *)
(*   Hurst, Sharpe, volatility, posterior probabilities, weights : 1/100   *)
(*   factor signals                                              : 1/10    *)
(*   price_change_pct                                            : percent *)
(*   confidence (after round(.,1))                               : 1/10    *)
(*   signal_strength (after round(.,3))                          : 1/1000  *)
(* IEEE rounding of intermediate floating-point results is not modelled.   *)
(***************************************************************************)
EXTENDS Integers, Sequences, FiniteSets, TLC

VARIABLES
    pc,             \* position of the call in progress
    analysis,       \* the factor record passed to calculate_trading_signal
    price_series,   \* the price series passed to calculate_trading_signal
    signals,        \* local list `signals` at the end of the call
    weights,        \* local list `weights` at the end of the call
    weights_array,  \* local `weights_array` after normalisation
    result,         \* the returned dictionary
    exc,            \* exception propagated by the call ("" if none)
    series,         \* the series passed to fractional_diff / find_min_ffd
    d,              \* differencing order of the fractional_diff call
    threshold,      \* weight threshold of the call
    fd_weights,     \* local list `weights` of fractional_diff
    k,              \* loop counter of the weight loop
    width,          \* local `width`
    iloc,           \* loop variable of the apply loop
    fd_result,      \* local `result`: position -> value, None where NaN
    ffd_series,     \* what fractional_diff returns: <<position, value>> pairs
    max_d,          \* upper bound of the find_min_ffd scan, in tenths
    cand,           \* index of the candidate the scan is at
    adf_calls,      \* the adfuller calls made so far: candidate and verdict
    d_min,          \* what find_min_ffd returns (None before it returns)
    spread,         \* the spread passed to calculate_half_life
    theta,          \* local `theta` of calculate_half_life
    half_life,      \* what calculate_half_life returns
    max_lag,        \* max_lag of the calculate_hurst_exponent call
    lag,            \* loop variable `lag` of calculate_hurst_exponent
    tau,            \* local list `tau` of calculate_hurst_exponent
    hurst_out,      \* what calculate_hurst_exponent returns
    symbols,        \* request.symbols of the batch_analyze call
    position,       \* index of the symbol the batch loop is at
    results,        \* local list `results` of batch_analyze
    outcomes,       \* how each analyze_symbol call of the batch ended
    z_window,       \* window of the calculate_z_score call
    z_score,        \* what calculate_z_score returns, position by position
    include_signal_processing,  \* parameter of analyze_symbol
    include_regime, \* parameter of analyze_symbol
    response,       \* local `response` of analyze_symbol
    stage_log       \* the analytic stages analyze_symbol ran, with their outcome

fusionVars == <<analysis, price_series, signals, weights, weights_array, result, exc>>
ffdVars == <<d, fd_weights, k, width, iloc, fd_result, ffd_series>>
scanVars == <<max_d, cand, adf_calls, d_min>>
halfLifeVars == <<spread, theta, half_life>>
hurstVars == <<max_lag, lag, tau, hurst_out>>
batchVars == <<symbols, position, results, outcomes>>
zVars == <<z_window, z_score>>
analyzeVars == <<include_signal_processing, include_regime, response, stage_log>>
restVars == <<zVars, analyzeVars>>
estVars == <<halfLifeVars, hurstVars, batchVars, restVars>>

(***************************************************************************)
(* Optional values: Python None / missing key / empty dict is <<>>.        *)
(***************************************************************************)
None == <<>>
Some(v) == <<v>>
IsNone(o) == o = <<>>
Get(o, default) == IF o = <<>> THEN default ELSE o[1]

Abs(x) == IF x < 0 THEN -x ELSE x
Min(a, b) == IF a < b THEN a ELSE b
Max(a, b) == IF a > b THEN a ELSE b

(***************************************************************************)
(* Exact fractions num/den in lowest terms with den > 0.                   *)
(***************************************************************************)
RECURSIVE GCD(_, _)
GCD(a, b) == IF b = 0 THEN a ELSE GCD(b, a % b)

Frac(n, m) ==
    LET sgn == IF m < 0 THEN -1 ELSE 1
        g == GCD(Abs(n), Abs(m))
    IN  [num |-> (sgn * n) \div g, den |-> (sgn * m) \div g]

Whole(n) == [num |-> n, den |-> 1]
FAdd(a, b) == Frac(a.num * b.den + b.num * a.den, a.den * b.den)
FMul(a, b) == Frac(a.num * b.num, a.den * b.den)
FNeg(a) == [num |-> -a.num, den |-> a.den]
FAbs(a) == [num |-> Abs(a.num), den |-> a.den]
FGT(a, b) == a.num * b.den > b.num * a.den
FLT(a, b) == a.num * b.den < b.num * a.den

RECURSIVE SumSeq(_)
SumSeq(s) == IF s = <<>> THEN 0 ELSE s[1] + SumSeq(Tail(s))

RECURSIVE DotSeq(_, _)
DotSeq(a, b) == IF a = <<>> THEN 0 ELSE a[1] * b[1] + DotSeq(Tail(a), Tail(b))

\* Python round(x, n) on the exact quotient n/d: nearest, ties to even.
RoundHalfEven(n, m) ==
    LET q == n \div m
        r == n % m
    IN  IF 2 * r < m THEN q
        ELSE IF 2 * r > m THEN q + 1
        ELSE IF q % 2 = 0 THEN q ELSE q + 1

(***************************************************************************)
(* Text: a string is a sequence of chunks, so that concatenation and the   *)
(* empty string are what they are in the program.                          *)
(***************************************************************************)
Text(t) == <<[text |-> t, arg |-> 0]>>
Fmt(t, v) == <<[text |-> t, arg |-> v]>>
EmptyStr == <<>>

\* variant: the parts are joined last to first
RECURSIVE Join_Reversed(_)
Join_Reversed(parts) ==
    IF parts = <<>> THEN EmptyStr
    ELSE IF Len(parts) = 1 THEN parts[1]
    ELSE Join_Reversed(Tail(parts)) \o Text(" | ") \o parts[1]

\* " | ".join(parts)
RECURSIVE Join(_)
Join(parts) ==
    IF parts = <<>> THEN EmptyStr
    ELSE IF Len(parts) = 1 THEN parts[1]
    ELSE parts[1] \o Text(" | ") \o Join(Tail(parts))

(***************************************************************************)
(* Regime descriptions produced by detect_regime for n_states = 3.         *)
(***************************************************************************)
BearDesc == "Bear Market (Negative Mean)"
SideDesc == "Sideways (Low Volatility)"
BullDesc == "Bull Market (Positive Mean)"

regime_descriptions == (0 :> BearDesc) @@ (1 :> SideDesc) @@ (2 :> BullDesc)

\* 'Bull' in regime_desc, 'Bear' in regime_desc
HasBull(desc) == desc = BullDesc
HasBear(desc) == desc = BearDesc

\* regime.get('regime_descriptions', {}).get(key, '')
DescOf(regime, key) ==
    IF key \in DOMAIN regime.regime_descriptions
    THEN regime.regime_descriptions[key] ELSE ""

DescText(desc) == IF desc = "" THEN EmptyStr ELSE Text(desc)

(***************************************************************************)
(* Policy constants of calculate_trading_signal.                           *)
(***************************************************************************)
W_HURST == 30
W_REGIME == 25
W_VOLATILITY == 15
W_MOMENTUM == 20
W_STATISTICAL == 10

HURST_LOW == 45
HURST_HIGH == 55
RETURN_BAND == 5
RETURN_LAG == 20
REGIME_PROB_MIN == 60
VOL_HIGH == 40
VOL_LOW == 15
SHARPE_HIGH == 150
SHARPE_LOW == 50
TREND_MOVE == 2
REVERT_MOVE == 3
DECISION_THRESHOLD == 3

\* factor signals, in tenths
BUY_SIG == 10
HALF_BUY_SIG == 5
NEUTRAL_SIG == 0
HALF_SELL_SIG == -5
SELL_SIG == -10

\* float('nan'), as a Hurst exponent (np.polyfit on a log of 0)
NaN == 1000000
IsNaN(x) == x = NaN

Part(s, w) == [s |-> <<s>>, w |-> <<w>>]
NoPart == [s |-> <<>>, w |-> <<>>]

\* price_series.iloc[-1] / price_series.iloc[-20] - 1, compared with pct/100
Iloc(prices, off) == prices[Len(prices) + 1 + off]
ReturnGT(prices, pct) ==
    100 * (Iloc(prices, -1) - Iloc(prices, -RETURN_LAG)) > pct * Iloc(prices, -RETURN_LAG)
ReturnLT(prices, pct) ==
    100 * (Iloc(prices, -1) - Iloc(prices, -RETURN_LAG)) < pct * Iloc(prices, -RETURN_LAG)

\* 1. Hurst exponent signal
HurstPart(a, prices) ==
    IF IsNone(a.hurst_exponent) THEN NoPart
    ELSE LET hurst == a.hurst_exponent[1] IN
        IF IsNaN(hurst) THEN Part(NEUTRAL_SIG, W_HURST)
        ELSE IF hurst < HURST_LOW
        THEN IF ReturnGT(prices, RETURN_BAND) THEN Part(SELL_SIG, W_HURST)
             ELSE IF ReturnLT(prices, -RETURN_BAND) THEN Part(BUY_SIG, W_HURST)
             ELSE Part(NEUTRAL_SIG, W_HURST)
        ELSE IF hurst > HURST_HIGH
        THEN IF ReturnGT(prices, 0) THEN Part(BUY_SIG, W_HURST)
             ELSE Part(SELL_SIG, W_HURST)
        ELSE Part(NEUTRAL_SIG, W_HURST)

\* price_series.iloc[-20] on a prices of fewer than 20 points
HurstRaises(a, prices) ==
    IF IsNone(a.hurst_exponent) THEN FALSE
    ELSE IF IsNaN(a.hurst_exponent[1]) THEN FALSE
    ELSE IF a.hurst_exponent[1] < HURST_LOW \/ a.hurst_exponent[1] > HURST_HIGH
    THEN Len(prices) < RETURN_LAG
    ELSE FALSE

\* variant: a posterior of exactly 0.6 is enough
RegimePart_Inclusive(a) ==
    IF IsNone(a.regime) THEN NoPart
    ELSE LET regime == a.regime[1]
             current_regime == regime.current_regime[1]
             regime_desc == DescOf(regime, current_regime)
             regime_prob == regime.regime_probabilities[current_regime + 1]
         IN  IF HasBull(regime_desc) /\ regime_prob >= REGIME_PROB_MIN
             THEN Part(BUY_SIG, W_REGIME)
             ELSE IF HasBear(regime_desc) /\ regime_prob >= REGIME_PROB_MIN
             THEN Part(SELL_SIG, W_REGIME)
             ELSE Part(NEUTRAL_SIG, W_REGIME)

\* 2. Regime signal
RegimePart(a) ==
    IF IsNone(a.regime) THEN NoPart
    ELSE LET regime == a.regime[1]
             current_regime == regime.current_regime[1]
             regime_desc == DescOf(regime, current_regime)
             regime_prob == regime.regime_probabilities[current_regime + 1]
         IN  IF HasBull(regime_desc) /\ regime_prob > REGIME_PROB_MIN
             THEN Part(BUY_SIG, W_REGIME)
             ELSE IF HasBear(regime_desc) /\ regime_prob > REGIME_PROB_MIN
             THEN Part(SELL_SIG, W_REGIME)
             ELSE Part(NEUTRAL_SIG, W_REGIME)

\* regime_probabilities[current_regime] with current_regime None or out of range
RegimeRaises(a) ==
    IF IsNone(a.regime) THEN FALSE
    ELSE IF IsNone(a.regime[1].current_regime) THEN TRUE
    ELSE a.regime[1].current_regime[1] + 1 > Len(a.regime[1].regime_probabilities)

\* 3. Volatility signal
VolatilityPart(a) ==
    IF IsNone(a.volatility) THEN NoPart
    ELSE LET current_vol == a.volatility[1] IN
        IF current_vol > VOL_HIGH THEN Part(HALF_SELL_SIG, W_VOLATILITY)
        ELSE IF current_vol < VOL_LOW THEN Part(HALF_BUY_SIG, W_VOLATILITY)
        ELSE Part(NEUTRAL_SIG, W_VOLATILITY)

\* 4. Momentum signal: both inputs default to 0 and the append is unconditional
MomentumPart(a) ==
    LET price_change == Get(a.price_change_pct, 0)
        sharpe == Get(a.sharpe_ratio, 0)
    IN  IF sharpe > SHARPE_HIGH
        THEN IF price_change > 0 THEN Part(BUY_SIG, W_MOMENTUM)
             ELSE Part(HALF_BUY_SIG, W_MOMENTUM)
        ELSE IF sharpe < SHARPE_LOW
        THEN IF price_change < 0 THEN Part(SELL_SIG, W_MOMENTUM)
             ELSE Part(HALF_SELL_SIG, W_MOMENTUM)
        ELSE Part(NEUTRAL_SIG, W_MOMENTUM)


\* variant: both branches use the 2% band
StatisticalPart_SameBand(a) ==
    IF IsNone(a.cointegration) THEN NoPart
    ELSE LET is_stationary == a.cointegration[1]
             price_change == Get(a.price_change_pct, 0)
         IN  IF ~is_stationary
             THEN IF price_change > TREND_MOVE THEN Part(BUY_SIG, W_STATISTICAL)
                  ELSE IF price_change < -TREND_MOVE THEN Part(SELL_SIG, W_STATISTICAL)
                  ELSE Part(NEUTRAL_SIG, W_STATISTICAL)
             ELSE IF price_change > TREND_MOVE THEN Part(SELL_SIG, W_STATISTICAL)
                  ELSE IF price_change < -TREND_MOVE THEN Part(BUY_SIG, W_STATISTICAL)
                  ELSE Part(NEUTRAL_SIG, W_STATISTICAL)

\* 5. Statistical (stationarity) signal
StatisticalPart(a) ==
    IF IsNone(a.cointegration) THEN NoPart
    ELSE LET is_stationary == a.cointegration[1]
             price_change == Get(a.price_change_pct, 0)
         IN  IF ~is_stationary
             THEN IF price_change > TREND_MOVE THEN Part(BUY_SIG, W_STATISTICAL)
                  ELSE IF price_change < -TREND_MOVE THEN Part(SELL_SIG, W_STATISTICAL)
                  ELSE Part(NEUTRAL_SIG, W_STATISTICAL)
             ELSE IF price_change > REVERT_MOVE THEN Part(SELL_SIG, W_STATISTICAL)
                  ELSE IF price_change < -REVERT_MOVE THEN Part(BUY_SIG, W_STATISTICAL)
                  ELSE Part(NEUTRAL_SIG, W_STATISTICAL)

\* the lists `signals` and `weights` when line 123 is reached
Signals(a, prices) ==
    HurstPart(a, prices).s \o RegimePart(a).s \o VolatilityPart(a).s
        \o MomentumPart(a).s \o StatisticalPart(a).s
Weights(a, prices) ==
    HurstPart(a, prices).w \o RegimePart(a).w \o VolatilityPart(a).w
        \o MomentumPart(a).w \o StatisticalPart(a).w

\* variant: divides by the total of the five nominal weights
Normalize_Nominal(w) ==
    [i \in 1..Len(w) |->
        [num |-> w[i],
         den |-> W_HURST + W_REGIME + W_VOLATILITY + W_MOMENTUM + W_STATISTICAL]]

\* weights_array / weights_array.sum(): each entry is the fraction num/den
Normalize(w) == [i \in 1..Len(w) |-> [num |-> w[i], den |-> SumSeq(w)]]

Nums(wa) == [i \in 1..Len(wa) |-> wa[i].num]

\* np.average(signals, weights=weights_array), as the fraction num/den of
\* signal units (tenths): sum(s*w) / sum(w); the entries of wa share one den
Average(s, wa) == [num |-> DotSeq(s, Nums(wa)), den |-> 10 * SumSeq(Nums(wa))]

\* variant: the BUY threshold is inclusive
IsBuy_Inclusive(S) == 10 * S.num >= DECISION_THRESHOLD * S.den

\* variant: the SELL threshold is inclusive
IsSell_Inclusive(S) == 10 * S.num <= -DECISION_THRESHOLD * S.den

\* weighted_signal > 0.3, weighted_signal < -0.3
IsBuy(S) == 10 * S.num > DECISION_THRESHOLD * S.den
IsSell(S) == 10 * S.num < -DECISION_THRESHOLD * S.den

Recommendation(S) == IF IsBuy(S) THEN "BUY" ELSE IF IsSell(S) THEN "SELL" ELSE "HOLD"

\* variant: the HOLD confidence uses the signed signal
Confidence_Signed(S) ==
    IF 10 * Abs(S.num) > DECISION_THRESHOLD * S.den
    THEN IF Abs(S.num) < S.den
         THEN [num |-> 100 * Abs(S.num), den |-> S.den]
         ELSE [num |-> 100, den |-> 1]
    ELSE [num |-> 100 * S.den - 100 * S.num, den |-> S.den]

\* `confidence` before rounding, as the fraction num/den (units of 1)
Confidence(S) ==
    IF IsBuy(S) \/ IsSell(S)
    THEN IF Abs(S.num) < S.den
         THEN [num |-> 100 * Abs(S.num), den |-> S.den]
         ELSE [num |-> 100, den |-> 1]
    ELSE [num |-> 100 * S.den - 100 * Abs(S.num), den |-> S.den]

\* reasoning_parts
ReasoningParts(a) ==
    LET hurstPart ==
            IF IsNone(a.hurst_exponent) THEN <<>>
            ELSE IF IsNaN(a.hurst_exponent[1]) THEN <<>>
            ELSE IF a.hurst_exponent[1] < HURST_LOW
            THEN <<Fmt("Mean reverting (H=%.2f)", a.hurst_exponent[1])>>
            ELSE IF a.hurst_exponent[1] > HURST_HIGH
            THEN <<Fmt("Trending (H=%.2f)", a.hurst_exponent[1])>>
            ELSE <<>>
        regimePart ==
            IF IsNone(a.regime) THEN <<>>
            ELSE <<DescText(DescOf(a.regime[1], Get(a.regime[1].current_regime, 0)))>>
        volPart ==
            IF IsNone(a.volatility) THEN <<>>
            ELSE IF a.volatility[1] > VOL_HIGH
            THEN <<Fmt("High volatility (%.1f%%)", a.volatility[1])>>
            ELSE IF a.volatility[1] < VOL_LOW
            THEN <<Fmt("Low volatility (%.1f%%)", a.volatility[1])>>
            ELSE <<>>
        sharpe == Get(a.sharpe_ratio, 0)
        sharpePart ==
            IF sharpe > SHARPE_HIGH THEN <<Fmt("Strong Sharpe (%.2f)", sharpe)>>
            ELSE IF sharpe < SHARPE_LOW THEN <<Fmt("Weak Sharpe (%.2f)", sharpe)>>
            ELSE <<>>
    IN  hurstPart \o regimePart \o volPart \o sharpePart

Reasoning(a) ==
    IF ReasoningParts(a) # <<>> THEN Join(ReasoningParts(a))
    ELSE Text("Based on technical analysis")

InsufficientData ==
    [recommendation |-> "HOLD", confidence |-> 0, signal_strength |-> 0,
     reasoning |-> Text("Insufficient data for recommendation")]

\* the dictionary calculate_trading_signal returns
TradingSignal(a, prices) ==
    IF Signals(a, prices) = <<>> THEN InsufficientData
    ELSE LET S == Average(Signals(a, prices), Normalize(Weights(a, prices)))
             confidence == Confidence(S)
         IN  [recommendation |-> Recommendation(S),
              confidence |-> RoundHalfEven(10 * confidence.num, confidence.den),
              signal_strength |-> RoundHalfEven(1000 * S.num, S.den),
              reasoning |-> Reasoning(a)]

FusionRaises(a, prices) == IF HurstRaises(a, prices) THEN TRUE ELSE RegimeRaises(a)

NoResult ==
    [recommendation |-> "", confidence |-> 0, signal_strength |-> 0, reasoning |-> EmptyStr]

(***************************************************************************)
(* Inputs of calculate_trading_signal.                                     *)
(***************************************************************************)
HurstValues == {30, 45, 55, 60}
VolatilityValues == {10, 15, 40, 50}
SharpeValues == {20, 50, 150, 200}
PriceChangeValues == {-4, -3, 0, 2, 3, 4}
LastPrices == {92, 95, 100, 105, 108}

\* current regime id and posterior vector, as detect_regime reports them
RegimeCases ==
    {<<0, <<70, 20, 10>>>>, <<2, <<10, 30, 60>>>>, <<2, <<10, 29, 61>>>>,
     <<1, <<10, 29, 61>>>>, <<0, <<10, 29, 61>>>>, <<1, <<10, 80, 10>>>>}

RegimeRecord(cur, probs) ==
    [current_regime |-> cur, regime_probabilities |-> probs,
     regime_descriptions |-> regime_descriptions]

\* a record without current regime id, one with a short posterior list, and
\* one without a description for its current regime id
DegenerateRegimes ==
    {RegimeRecord(None, <<10, 29, 61>>), RegimeRecord(Some(2), <<100>>),
     [current_regime |-> Some(1), regime_probabilities |-> <<10, 80, 10>>,
      regime_descriptions |-> <<>>]}

RegimeInputs ==
    {None} \cup {Some(RegimeRecord(Some(c[1]), c[2])) : c \in RegimeCases}
           \cup {Some(r) : r \in DegenerateRegimes}

Opt(S) == {None} \cup {Some(v) : v \in S}

AnalysisInputs ==
    [hurst_exponent : Opt(HurstValues),
     regime : RegimeInputs,
     volatility : Opt(VolatilityValues),
     price_change_pct : Opt(PriceChangeValues),
     sharpe_ratio : Opt(SharpeValues),
     cointegration : Opt(BOOLEAN)]

\* a price series of n points: an old level, a flat stretch, the last price
Prices(n, last) == [i \in 1..n |-> IF i = n THEN last ELSE IF i = 1 THEN 80 ELSE 100]

PriceInputs ==
    {Prices(RETURN_LAG + 1, p) : p \in LastPrices}
        \cup {Prices(RETURN_LAG, 108), Prices(RETURN_LAG - 1, 108)}

EmptyAnalysis ==
    [hurst_exponent |-> None, regime |-> None, volatility |-> None,
     price_change_pct |-> None, sharpe_ratio |-> None, cointegration |-> None]

(***************************************************************************)
(* fractional_diff.                                                        *)
(*                                                                         *)
(* Positions are 0-based as in the program; At(s, p) is s.iloc[p].         *)
(***************************************************************************)
At(s, p) == s[p + 1]

\* while abs(weights[-1]) > threshold
WeightLoopContinues(w, thr) == FGT(FAbs(w[Len(w)]), thr)

\* weight = -weights[-1] * (d - k + 1) / k
NextWeight(w, dd, kk) ==
    FMul(FNeg(w[Len(w)]), FMul(FAdd(dd, Whole(1 - kk)), Frac(1, kk)))

\* the list `weights` when the loop is left, first weight first
RECURSIVE WeightLoop(_, _, _, _)
WeightLoop(w, dd, thr, kk) ==
    IF WeightLoopContinues(w, thr)
    THEN WeightLoop(Append(w, NextWeight(w, dd, kk)), dd, thr, kk + 1)
    ELSE w

FdWeights(dd, thr) == WeightLoop(<<Whole(1)>>, dd, thr, 1)

\* weights[::-1]
Reverse(w) == [j \in 1..Len(w) |-> w[Len(w) + 1 - j]]

\* series.iloc[lo:hi]
Slice(s, lo, hi) == [j \in 1..(hi - lo) |-> At(s, lo + j - 1)]

\* np.dot(weights.T, window)[0, 0]
RECURSIVE FDot(_, _)
FDot(w, window) ==
    IF w = <<>> THEN Whole(0)
    ELSE FAdd(FMul(w[1], Whole(window[1])), FDot(Tail(w), Tail(window)))

\* the value assigned to result.iloc[p]; w is the reversed weight vector
FdValue(s, w, p) == FDot(w, Slice(s, p - Len(w), p))

\* variant: unassigned positions are kept as zeros
RECURSIVE DropNa_ZeroFill(_, _)
DropNa_ZeroFill(res, p) ==
    IF p >= Len(res) THEN <<>>
    ELSE <<[pos |-> p, val |-> Get(At(res, p), Whole(0))]>> \o DropNa_ZeroFill(res, p + 1)

\* result.dropna(): the assigned positions, in order, with their values
RECURSIVE DropNa(_, _)
DropNa(res, p) ==
    IF p >= Len(res) THEN <<>>
    ELSE IF IsNone(At(res, p)) THEN DropNa(res, p + 1)
    ELSE <<[pos |-> p, val |-> At(res, p)[1]]>> \o DropNa(res, p + 1)

\* the series fractional_diff(series, d, threshold) returns
FractionalDiff(s, dd, thr) ==
    LET w == Reverse(FdWeights(dd, thr))
        res == [j \in 1..Len(s) |->
                   IF j - 1 >= Len(w) THEN Some(FdValue(s, w, j - 1)) ELSE None]
    IN  DropNa(res, 0)

(***************************************************************************)
(* find_min_ffd.                                                           *)
(***************************************************************************)
MIN_POINTS == 10
SCAN_STEP == 1

\* variant: the candidates in descending order
Candidates_Descending(maxd) ==
    LET n == (maxd + SCAN_STEP - 1) \div SCAN_STEP
    IN  [i \in 1..n |-> (n - i) * SCAN_STEP]

\* np.arange(0.0, max_d, 0.1), in tenths
Candidates(maxd) ==
    [i \in 1..((maxd + SCAN_STEP - 1) \div SCAN_STEP) |-> (i - 1) * SCAN_STEP]

Tenths(t) == Frac(t, 10)

(***************************************************************************)
(* Inputs of fractional_diff and find_min_ffd.                             *)
(***************************************************************************)
MaxLen == 5
SeriesValues == {1, 2, 4}

RECURSIVE SeqsUpTo(_, _)
SeqsUpTo(S, n) ==
    IF n = 0 THEN {<<>>}
    ELSE LET shorter == SeqsUpTo(S, n - 1)
         IN  shorter \cup {Append(q, v) : q \in {x \in shorter : Len(x) = n - 1}, v \in S}

SeriesInputs == SeqsUpTo(SeriesValues, MaxLen)
OrderInputs == {Whole(0), Frac(3, 10), Frac(1, 2), Whole(1), Whole(2)}
ThresholdInputs == {Whole(1), Frac(1, 2), Frac(1, 10), Frac(1, 20)}

MinScanLen == 11
MaxScanLen == 14
ScanSeries(n) == [i \in 1..n |-> 100 + ((i * i) % 7)]
ScanSeriesInputs == {ScanSeries(n) : n \in MinScanLen..MaxScanLen}
MaxDInputs == {0, 3, 10}
ScanThresholdInputs == {Frac(1, 2), Frac(1, 10)}

(***************************************************************************)
(* Values of the variables of a component that is not running.             *)
(***************************************************************************)
FusionIdle ==
    /\ analysis = EmptyAnalysis
    /\ price_series = <<>>
    /\ signals = <<>>
    /\ weights = <<>>
    /\ weights_array = <<>>
    /\ result = NoResult
    /\ exc = ""

FfdIdle ==
    /\ d = Whole(0)
    /\ fd_weights = <<>>
    /\ k = 0
    /\ width = 0
    /\ iloc = 0
    /\ fd_result = <<>>
    /\ ffd_series = <<>>

ScanIdle ==
    /\ max_d = 0
    /\ cand = 0
    /\ adf_calls = <<>>
    /\ d_min = None

NoHalfLife == [inf |-> FALSE, ln2_times |-> [num |-> 0, den |-> 1]]

HalfLifeIdle ==
    /\ spread = <<>>
    /\ theta = [num |-> 0, den |-> 1]
    /\ half_life = NoHalfLife

NoHurst == [kind |-> "none", value |-> 0, points |-> <<>>]

HurstIdle ==
    /\ max_lag = 0
    /\ lag = 0
    /\ tau = <<>>
    /\ hurst_out = NoHurst

BatchIdle ==
    /\ symbols = <<>>
    /\ position = 0
    /\ results = <<>>
    /\ outcomes = <<>>

ZScoreIdle ==
    /\ z_window = 0
    /\ z_score = <<>>

NoResponse ==
    [cointegration |-> None, volatility |-> None, signal_processing |-> None,
     regime |-> None, sharpe_ratio |-> None, price_change_pct |-> None,
     recommendation |-> None]

AnalyzeIdle ==
    /\ include_signal_processing = FALSE
    /\ include_regime = FALSE
    /\ response = NoResponse
    /\ stage_log = <<>>

RestIdle == ZScoreIdle /\ AnalyzeIdle

EstIdle == HalfLifeIdle /\ HurstIdle /\ BatchIdle /\ RestIdle

vars ==
    <<pc, analysis, price_series, signals, weights, weights_array, result, exc,
      series, d, threshold, fd_weights, k, width, iloc, fd_result, ffd_series,
      max_d, cand, adf_calls, d_min, spread, theta, half_life, max_lag, lag, tau, hurst_out,
      symbols, position, results, outcomes, z_window, z_score,
      include_signal_processing, include_regime, response, stage_log>>

(***************************************************************************)
(* Specification of one call of calculate_trading_signal.                  *)
(***************************************************************************)
InitFusion ==
    /\ pc = "call"
    /\ analysis \in AnalysisInputs
    /\ price_series \in PriceInputs
    /\ signals = <<>>
    /\ weights = <<>>
    /\ weights_array = <<>>
    /\ result = NoResult
    /\ exc = ""
    /\ series = <<>>
    /\ threshold = Whole(1)
    /\ FfdIdle
    /\ ScanIdle
    /\ EstIdle

\* calculate_trading_signal runs to its return statement
calculate_trading_signal ==
    /\ pc = "call"
    /\ ~FusionRaises(analysis, price_series)
    /\ signals' = Signals(analysis, price_series)
    /\ weights' = Weights(analysis, price_series)
    /\ weights_array' = IF Signals(analysis, price_series) = <<>> THEN <<>>
                        ELSE Normalize(Weights(analysis, price_series))
    /\ result' = TradingSignal(analysis, price_series)
    /\ pc' = "returned"
    /\ UNCHANGED <<analysis, price_series, exc, series, threshold, ffdVars, scanVars, estVars>>

\* calculate_trading_signal leaves by an exception of an indexing expression
calculate_trading_signal_raises ==
    /\ pc = "call"
    /\ FusionRaises(analysis, price_series)
    /\ signals' = IF HurstRaises(analysis, price_series) THEN <<>>
                  ELSE HurstPart(analysis, price_series).s
    /\ weights' = IF HurstRaises(analysis, price_series) THEN <<>>
                  ELSE HurstPart(analysis, price_series).w
    /\ exc' = IF HurstRaises(analysis, price_series) THEN "IndexError"
              ELSE IF IsNone(analysis.regime[1].current_regime) THEN "TypeError"
              ELSE "IndexError"
    /\ pc' = "raised"
    /\ UNCHANGED <<analysis, price_series, weights_array, result, series, threshold,
                   ffdVars, scanVars, estVars>>

NextFusion == calculate_trading_signal \/ calculate_trading_signal_raises

SpecFusion == InitFusion /\ [][NextFusion]_vars

(***************************************************************************)
(* Specification of one call of fractional_diff, loop iteration by loop    *)
(* iteration.                                                              *)
(***************************************************************************)
InitFfd ==
    /\ pc = "weights"
    /\ series \in SeriesInputs
    /\ d \in OrderInputs
    /\ threshold \in ThresholdInputs
    /\ fd_weights = <<Whole(1)>>
    /\ k = 1
    /\ width = 0
    /\ iloc = 0
    /\ fd_result = <<>>
    /\ ffd_series = <<>>
    /\ FusionIdle
    /\ ScanIdle
    /\ EstIdle

\* one iteration of the weight loop (lines 34-37)
weight_loop ==
    /\ pc = "weights"
    /\ WeightLoopContinues(fd_weights, threshold)
    /\ fd_weights' = Append(fd_weights, NextWeight(fd_weights, d, k))
    /\ k' = k + 1
    /\ UNCHANGED <<pc, series, d, threshold, width, iloc, fd_result, ffd_series,
                   fusionVars, scanVars, estVars>>

\* variant: the width is capped by the length of the series
weights_done_SeriesBound ==
    /\ pc = "weights"
    /\ ~WeightLoopContinues(fd_weights, threshold)
    /\ fd_weights' = Reverse(fd_weights)
    /\ width' = Min(Len(fd_weights), Len(series))
    /\ fd_result' = [j \in 1..Len(series) |-> None]
    /\ iloc' = Min(Len(fd_weights), Len(series))
    /\ pc' = "apply"
    /\ UNCHANGED <<series, d, threshold, k, ffd_series, fusionVars, scanVars, estVars>>

\* the weight loop is left: reverse the weights, allocate the NaN result (39-43)
weights_done ==
    /\ pc = "weights"
    /\ ~WeightLoopContinues(fd_weights, threshold)
    /\ fd_weights' = Reverse(fd_weights)
    /\ width' = Len(fd_weights)
    /\ fd_result' = [j \in 1..Len(series) |-> None]
    /\ iloc' = Len(fd_weights)
    /\ pc' = "apply"
    /\ UNCHANGED <<series, d, threshold, k, ffd_series, fusionVars, scanVars, estVars>>

\* variant: the apply loop writes the differentiated value into the input
apply_loop_InPlace ==
    /\ pc = "apply"
    /\ iloc < Len(series)
    /\ series' = [series EXCEPT ![iloc + 1] = FdValue(series, fd_weights, iloc).num]
    /\ fd_result' = [fd_result EXCEPT ![iloc + 1] = Some(FdValue(series, fd_weights, iloc))]
    /\ iloc' = iloc + 1
    /\ UNCHANGED <<pc, d, threshold, fd_weights, k, width, ffd_series,
                   fusionVars, scanVars, estVars>>

\* one iteration of the apply loop (lines 45-49)
apply_loop ==
    /\ pc = "apply"
    /\ iloc < Len(series)
    /\ fd_result' = [fd_result EXCEPT ![iloc + 1] = Some(FdValue(series, fd_weights, iloc))]
    /\ iloc' = iloc + 1
    /\ UNCHANGED <<pc, series, d, threshold, fd_weights, k, width, ffd_series,
                   fusionVars, scanVars, estVars>>

\* return result.dropna() (line 51)
fractional_diff_returns ==
    /\ pc = "apply"
    /\ iloc >= Len(series)
    /\ ffd_series' = DropNa(fd_result, 0)
    /\ pc' = "ffd_done"
    /\ UNCHANGED <<series, d, threshold, fd_weights, k, width, iloc, fd_result,
                   fusionVars, scanVars, estVars>>

NextFfd == weight_loop \/ weights_done \/ apply_loop \/ fractional_diff_returns

SpecFfd == InitFfd /\ [][NextFfd]_vars

\* the loop test holds and the body runs once more (lines 34-37)
WeightLoopStep ==
    /\ pc = "weights"
    /\ WeightLoopContinues(fd_weights, threshold)
    /\ k' = k + 1

\* the loop test fails and the loop is left (lines 34, 39)
WeightLoopExit ==
    /\ pc = "weights"
    /\ ~WeightLoopContinues(fd_weights, threshold)
    /\ pc' = "apply"

\* the call is a sequential program: while it is in the weight loop it takes
\* its next step
SpecFfdFair == SpecFfd /\ WF_k(WeightLoopStep) /\ WF_pc(WeightLoopExit)

(***************************************************************************)
(* Specification of one call of find_min_ffd, candidate by candidate.      *)
(* adfuller is an external oracle: its verdict (p < 0.05 or not) is free.  *)
(***************************************************************************)
InitScan ==
    /\ pc = "scan"
    /\ series \in ScanSeriesInputs
    /\ threshold \in ScanThresholdInputs
    /\ max_d \in MaxDInputs
    /\ cand = 1
    /\ adf_calls = <<>>
    /\ d_min = None
    /\ FusionIdle
    /\ FfdIdle
    /\ EstIdle

CurrentCandidate == Candidates(max_d)[cand]
CurrentFfd == FractionalDiff(series, Tenths(CurrentCandidate), threshold)

\* variant: a candidate with too few points ends the scan
scan_skip_Stops ==
    /\ pc = "scan"
    /\ cand <= Len(Candidates(max_d))
    /\ Len(CurrentFfd) < MIN_POINTS
    /\ d_min' = Some(max_d)
    /\ pc' = "scan_done"
    /\ UNCHANGED <<series, threshold, max_d, cand, adf_calls, fusionVars, ffdVars, estVars>>

\* len(ffd_series) < 10: continue
scan_skip ==
    /\ pc = "scan"
    /\ cand <= Len(Candidates(max_d))
    /\ Len(CurrentFfd) < MIN_POINTS
    /\ cand' = cand + 1
    /\ UNCHANGED <<pc, series, threshold, max_d, adf_calls, d_min, fusionVars, ffdVars, estVars>>

\* adfuller is called and reports p >= 0.05: next candidate
scan_not_stationary ==
    /\ pc = "scan"
    /\ cand <= Len(Candidates(max_d))
    /\ Len(CurrentFfd) >= MIN_POINTS
    /\ adf_calls' = Append(adf_calls, [d |-> CurrentCandidate, stationary |-> FALSE])
    /\ cand' = cand + 1
    /\ UNCHANGED <<pc, series, threshold, max_d, d_min, fusionVars, ffdVars, estVars>>

\* adfuller is called and reports p < 0.05: return float(d)
scan_stationary ==
    /\ pc = "scan"
    /\ cand <= Len(Candidates(max_d))
    /\ Len(CurrentFfd) >= MIN_POINTS
    /\ adf_calls' = Append(adf_calls, [d |-> CurrentCandidate, stationary |-> TRUE])
    /\ d_min' = Some(CurrentCandidate)
    /\ pc' = "scan_done"
    /\ UNCHANGED <<series, threshold, max_d, cand, fusionVars, ffdVars, estVars>>

\* variant: the last candidate is returned when the candidates are exhausted
scan_exhausted_LastCandidate ==
    /\ pc = "scan"
    /\ cand > Len(Candidates(max_d))
    /\ d_min' = Some(IF Candidates(max_d) = <<>> THEN 0
                     ELSE Candidates(max_d)[Len(Candidates(max_d))])
    /\ pc' = "scan_done"
    /\ UNCHANGED <<series, threshold, max_d, cand, adf_calls, fusionVars, ffdVars, estVars>>

\* the candidates are exhausted: return float(max_d)
scan_exhausted ==
    /\ pc = "scan"
    /\ cand > Len(Candidates(max_d))
    /\ d_min' = Some(max_d)
    /\ pc' = "scan_done"
    /\ UNCHANGED <<series, threshold, max_d, cand, adf_calls, fusionVars, ffdVars, estVars>>

NextScan == scan_skip \/ scan_not_stationary \/ scan_stationary \/ scan_exhausted

SpecScan == InitScan /\ [][NextScan]_vars

(***************************************************************************)
(* calculate_half_life (api/analyzers/cointegration.py).                   *)
(*                                                                         *)
(* The returned half-life is -ln(2)/theta; ln(2) is kept symbolic: a       *)
(* finite half-life is the rational factor that multiplies ln(2).          *)
(***************************************************************************)
\* spread.shift(1).dropna(), aligned with the differences
SpreadLag(sp) == [i \in 1..(Len(sp) - 1) |-> sp[i]]

\* spread.diff().dropna()
SpreadDiff(sp) == [i \in 1..(Len(sp) - 1) |-> sp[i + 1] - sp[i]]

\* LinearRegression(fit_intercept=True).fit(x, y).coef_[0]; a regressor
\* without variance gets the minimum-norm coefficient 0
OlsSlope(x, y) ==
    LET n == Len(x)
        den == n * DotSeq(x, x) - SumSeq(x) * SumSeq(x)
    IN  IF den = 0 THEN Whole(0)
        ELSE Frac(n * DotSeq(x, y) - SumSeq(x) * SumSeq(y), den)

Theta(sp) == OlsSlope(SpreadLag(sp), SpreadDiff(sp))

\* variant: the sign of the quotient is lost
HalfLifeOf_SignError(th) ==
    IF th.num < 0 THEN [inf |-> FALSE, ln2_times |-> Frac(th.den, th.num)]
    ELSE [inf |-> TRUE, ln2_times |-> Whole(0)]

\* if theta < 0: -np.log(2) / theta, else float('inf')
HalfLifeOf(th) ==
    IF th.num < 0 THEN [inf |-> FALSE, ln2_times |-> Frac(-th.den, th.num)]
    ELSE [inf |-> TRUE, ln2_times |-> Whole(0)]

\* model.fit on an empty frame raises ValueError
HalfLifeRaises(sp) == Len(sp) < 2

MaxSpreadLen == 4
SpreadValues == {0, 1, 3}

InitHalfLife ==
    /\ pc = "half_life"
    /\ spread \in SeqsUpTo(SpreadValues, MaxSpreadLen)
    /\ theta = Whole(0)
    /\ half_life = NoHalfLife
    /\ series = <<>>
    /\ threshold = Whole(1)
    /\ FusionIdle
    /\ FfdIdle
    /\ ScanIdle
    /\ HurstIdle
    /\ BatchIdle
    /\ RestIdle

\* calculate_half_life runs to one of its return statements
calculate_half_life ==
    /\ pc = "half_life"
    /\ ~HalfLifeRaises(spread)
    /\ theta' = Theta(spread)
    /\ half_life' = HalfLifeOf(Theta(spread))
    /\ pc' = "half_life_done"
    /\ UNCHANGED <<spread, series, threshold, fusionVars, ffdVars, scanVars, hurstVars,
                   batchVars, restVars>>

\* the regression is given no sample
calculate_half_life_raises ==
    /\ pc = "half_life"
    /\ HalfLifeRaises(spread)
    /\ pc' = "half_life_raised"
    /\ UNCHANGED <<halfLifeVars, series, threshold, fusionVars, ffdVars, scanVars, hurstVars,
                   batchVars, restVars>>

NextHalfLife == calculate_half_life \/ calculate_half_life_raises

SpecHalfLife == InitHalfLife /\ [][NextHalfLife]_vars

(***************************************************************************)
(* calculate_hurst_exponent (api/analyzers/signal_processing.py).          *)
(*                                                                         *)
(* Means, variances and ranges are exact rationals.  A rescaled range is   *)
(* kept as the pair (R, rolling variances): it stands for                  *)
(* R / mean(sqrt(variance)), which is 0 exactly when R is 0.  The fitted   *)
(* slope is kept as the list of (lag, RS) points handed to np.polyfit.     *)
(***************************************************************************)
\* sum of the window of `lg` values that starts at position i
WindowSum(s, lg, i) == SumSeq([j \in 1..lg |-> s[i + j - 1]])
WindowSumSq(s, lg, i) == SumSeq([j \in 1..lg |-> s[i + j - 1] * s[i + j - 1]])

\* series.rolling(window=lag).mean().dropna()
RollingMean(s, lg) ==
    [i \in 1..Max(Len(s) - lg + 1, 0) |-> Frac(WindowSum(s, lg, i), lg)]

\* squares of series.rolling(window=lag).std().dropna() (sample variance)
RollingVar(s, lg) ==
    [i \in 1..Max(Len(s) - lg + 1, 0) |->
        Frac(lg * WindowSumSq(s, lg, i) - WindowSum(s, lg, i) * WindowSum(s, lg, i),
             lg * (lg - 1))]

\* len(std) == 0
StdIsEmpty(s, lg) == Len(RollingVar(s, lg)) = 0

\* std.mean() > 0
StdMeanPositive(s, lg) == \E i \in 1..Len(RollingVar(s, lg)) : RollingVar(s, lg)[i].num > 0

\* series[lag-1:len(rolling_mean)+lag-1] - rolling_mean.values
Deviations(s, lg) ==
    [i \in 1..Len(RollingMean(s, lg)) |->
        FAdd(Whole(s[i + lg - 1]), FNeg(RollingMean(s, lg)[i]))]

RECURSIVE CumSum(_)
CumSum(fs) ==
    IF Len(fs) <= 1 THEN fs
    ELSE LET head == CumSum(SubSeq(fs, 1, Len(fs) - 1))
         IN  Append(head, FAdd(head[Len(head)], fs[Len(fs)]))

FMaxOf(fs) == CHOOSE x \in {fs[i] : i \in 1..Len(fs)} :
                  \A i \in 1..Len(fs) : ~FGT(fs[i], x)
FMinOf(fs) == CHOOSE x \in {fs[i] : i \in 1..Len(fs)} :
                  \A i \in 1..Len(fs) : ~FLT(fs[i], x)

\* R = cumulative_dev.max() - cumulative_dev.min()
RangeOf(s, lg) ==
    LET cumulative_dev == CumSum(Deviations(s, lg))
    IN  FAdd(FMaxOf(cumulative_dev), FNeg(FMinOf(cumulative_dev)))

ZeroRS == [range |-> Whole(0), variances |-> <<>>]

\* RS = R / std.mean() if std.mean() > 0 else 0
RescaledRange(s, lg) ==
    IF StdMeanPositive(s, lg) /\ RangeOf(s, lg).num # 0
    THEN [range |-> RangeOf(s, lg), variances |-> RollingVar(s, lg)]
    ELSE ZeroRS

\* list(lags[:len(tau)]) for lags = range(2, max_lag)
LagsPrefix(ml, m) == [i \in 1..Min(m, Max(ml - 2, 0)) |-> i + 1]

\* variant: the statistics are paired with the last lags of the range
FitPoints_LastLags(ml, t) ==
    [i \in 1..Len(t) |-> [lag |-> ml - 1 - Len(t) + i, rs |-> t[i]]]

\* the points (log_lags[i], log_tau[i]) handed to np.polyfit
FitPoints(ml, t) ==
    [i \in 1..Len(t) |-> [lag |-> LagsPrefix(ml, Len(t))[i], rs |-> t[i]]]

HURST_DEFAULT == 50

\* coeffs = np.polyfit(log_lags, log_tau, 1); float(coeffs[0]): np.log(0) is
\* -inf, and a fit through a point at -inf has no finite slope (nan)
PolyFit(points) ==
    [kind |-> IF \E i \in 1..Len(points) : points[i].rs = ZeroRS THEN "nan" ELSE "fit",
     value |-> 0,
     points |-> points]

MaxLagInputs == {2, 3, 5}

InitHurst ==
    /\ pc = "hurst_loop"
    /\ series \in SeriesInputs
    /\ max_lag \in MaxLagInputs
    /\ lag = 2
    /\ tau = <<>>
    /\ hurst_out = NoHurst
    /\ threshold = Whole(1)
    /\ FusionIdle
    /\ FfdIdle
    /\ ScanIdle
    /\ HalfLifeIdle
    /\ BatchIdle
    /\ RestIdle

\* if len(std) == 0: continue
hurst_skip_lag ==
    /\ pc = "hurst_loop"
    /\ lag < max_lag
    /\ StdIsEmpty(series, lag)
    /\ lag' = lag + 1
    /\ UNCHANGED <<pc, series, threshold, max_lag, tau, hurst_out, fusionVars, ffdVars,
                   scanVars, halfLifeVars, batchVars, restVars>>

\* tau.append(RS)
hurst_append_lag ==
    /\ pc = "hurst_loop"
    /\ lag < max_lag
    /\ ~StdIsEmpty(series, lag)
    /\ tau' = Append(tau, RescaledRange(series, lag))
    /\ lag' = lag + 1
    /\ UNCHANGED <<pc, series, threshold, max_lag, hurst_out, fusionVars, ffdVars,
                   scanVars, halfLifeVars, batchVars, restVars>>

\* if len(tau) == 0: return 0.5
hurst_returns_default ==
    /\ pc = "hurst_loop"
    /\ lag >= max_lag
    /\ Len(tau) = 0
    /\ hurst_out' = [kind |-> "number", value |-> HURST_DEFAULT, points |-> <<>>]
    /\ pc' = "hurst_done"
    /\ UNCHANGED <<series, threshold, max_lag, lag, tau, fusionVars, ffdVars,
                   scanVars, halfLifeVars, batchVars, restVars>>

\* return float(hurst)
hurst_returns_fit ==
    /\ pc = "hurst_loop"
    /\ lag >= max_lag
    /\ Len(tau) # 0
    /\ hurst_out' = PolyFit(FitPoints(max_lag, tau))
    /\ pc' = "hurst_done"
    /\ UNCHANGED <<series, threshold, max_lag, lag, tau, fusionVars, ffdVars,
                   scanVars, halfLifeVars, batchVars, restVars>>

NextHurst ==
    \/ hurst_skip_lag
    \/ hurst_append_lag
    \/ hurst_returns_default
    \/ hurst_returns_fit

SpecHurst == InitHurst /\ [][NextHurst]_vars

(***************************************************************************)
(* batch_analyze (api/routes/analysis.py).                                 *)
(*                                                                         *)
(* analyze_symbol is a call with three outcomes: it returns a response, it *)
(* raises HTTPException 404 (no data), or it raises HTTPException 500 (any *)
(* other exception, wrapped).                                              *)
(***************************************************************************)
\* AnalysisResponse(symbol=symbol, ...)
Response(sym) == [symbol |-> sym]

\* the exceptions analyze_symbol lets out
AnalyzeFailures == {"HTTPException_404", "HTTPException_500"}

MaxBatch == 3
SymbolInputs == {"AAPL", "EURUSD", "MSFT"}

InitBatch ==
    /\ pc = "batch_loop"
    /\ symbols \in SeqsUpTo(SymbolInputs, MaxBatch) \ {<<>>}
    /\ position = 1
    /\ results = <<>>
    /\ outcomes = <<>>
    /\ series = <<>>
    /\ threshold = Whole(1)
    /\ FusionIdle
    /\ FfdIdle
    /\ ScanIdle
    /\ HalfLifeIdle
    /\ HurstIdle
    /\ RestIdle

\* result = await analyze_symbol(...); results.append(result)
batch_symbol_succeeds ==
    /\ pc = "batch_loop"
    /\ position <= Len(symbols)
    /\ results' = Append(results, Response(symbols[position]))
    /\ outcomes' = Append(outcomes, "ok")
    /\ position' = position + 1
    /\ UNCHANGED <<pc, symbols, series, threshold, fusionVars, ffdVars, scanVars,
                   halfLifeVars, hurstVars, restVars>>

\* variant: the first failure ends the loop
batch_symbol_fails_Aborts ==
    /\ pc = "batch_loop"
    /\ position <= Len(symbols)
    /\ \E e \in AnalyzeFailures : outcomes' = Append(outcomes, e)
    /\ position' = Len(symbols) + 1
    /\ UNCHANGED <<pc, symbols, results, series, threshold, fusionVars, ffdVars, scanVars,
                   halfLifeVars, hurstVars, restVars>>

\* except Exception as e: print(...); continue
batch_symbol_fails ==
    /\ pc = "batch_loop"
    /\ position <= Len(symbols)
    /\ \E e \in AnalyzeFailures : outcomes' = Append(outcomes, e)
    /\ position' = position + 1
    /\ UNCHANGED <<pc, symbols, results, series, threshold, fusionVars, ffdVars, scanVars,
                   halfLifeVars, hurstVars, restVars>>

\* return results
batch_returns ==
    /\ pc = "batch_loop"
    /\ position > Len(symbols)
    /\ pc' = "batch_done"
    /\ UNCHANGED <<batchVars, series, threshold, fusionVars, ffdVars, scanVars,
                   halfLifeVars, hurstVars, restVars>>

NextBatch == batch_symbol_succeeds \/ batch_symbol_fails \/ batch_returns

SpecBatch == InitBatch /\ [][NextBatch]_vars

(***************************************************************************)
(* calculate_z_score (api/analyzers/cointegration.py).                     *)
(*                                                                         *)
(* A defined z-score is kept as the pair (deviation, variance): it stands  *)
(* for deviation / sqrt(variance).  NaN and infinity are values of their   *)
(* own, as in floating-point division.                                     *)
(***************************************************************************)
ZNaN == [kind |-> "nan", dev |-> Whole(0), var |-> Whole(0)]
ZInf == [kind |-> "inf", dev |-> Whole(0), var |-> Whole(0)]

\* variant: the mean of all the values up to the position
ZMean_Expanding(sp, w, p) == Frac(SumSeq(SubSeq(sp, 1, p)), p)

\* spread.rolling(window=window).mean() at position p >= window (1-based)
ZMean(sp, w, p) == RollingMean(sp, w)[p - w + 1]

\* the square of spread.rolling(window=window).std() at position p >= window
ZVar(sp, w, p) == RollingVar(sp, w)[p - w + 1]

\* x / std elementwise: 0/0 is nan, x/0 is +-inf, nan propagates
ZDivide(dev, var) ==
    IF var.num = 0
    THEN IF dev.num = 0 THEN ZNaN ELSE ZInf
    ELSE [kind |-> "num", dev |-> dev, var |-> var]

\* (spread - mean) / std
ZScore(sp, w) ==
    [p \in 1..Len(sp) |->
        IF p < w THEN ZNaN
        ELSE ZDivide(FAdd(Whole(sp[p]), FNeg(ZMean(sp, w, p))), ZVar(sp, w, p))]

WindowInputs == {2, 3}

InitZScore ==
    /\ pc = "z_score"
    /\ spread \in SeqsUpTo(SpreadValues, MaxSpreadLen)
    /\ z_window \in WindowInputs
    /\ z_score = <<>>
    /\ theta = Whole(0)
    /\ half_life = NoHalfLife
    /\ series = <<>>
    /\ threshold = Whole(1)
    /\ FusionIdle
    /\ FfdIdle
    /\ ScanIdle
    /\ HurstIdle
    /\ BatchIdle
    /\ AnalyzeIdle

\* calculate_z_score runs to its return statement
calculate_z_score ==
    /\ pc = "z_score"
    /\ z_score' = ZScore(spread, z_window)
    /\ pc' = "z_score_done"
    /\ UNCHANGED <<spread, z_window, theta, half_life, series, threshold, fusionVars, ffdVars,
                   scanVars, hurstVars>>
    /\ UNCHANGED <<symbols, position, results, outcomes, analyzeVars>>

NextZScore == calculate_z_score

SpecZScore == InitZScore /\ [][NextZScore]_vars

(***************************************************************************)
(* analyze_symbol (api/routes/analysis.py), stage by stage.                *)
(*                                                                         *)
(* price_series is df['close'].  Each analytic stage either assigns its    *)
(* field of the response or raises inside its own try block.  What a stage *)
(* computes is drawn from a small set, except the Hurst exponent of a      *)
(* price series shorter than the default max_lag, which is nan.            *)
(***************************************************************************)
HURST_MAX_LAG == 20

\* (df['close'].iloc[-1] / df['close'].iloc[-2] - 1) * 100
PriceChangePct(prices) ==
    (100 * (Iloc(prices, -1) - Iloc(prices, -2))) \div Iloc(prices, -2)

AnalyzeHurstValues == {30, 50, 60, NaN}

\* what calculate_hurst_exponent(df['close']) can return: with fewer points
\* than max_lag the lag len(series) has one window and a rescaled range of 0
HurstOutcomes(prices) ==
    IF Len(prices) < HURST_MAX_LAG
    THEN IF PolyFit(<<[lag |-> Len(prices), rs |-> RescaledRange(prices, Len(prices))]>>).kind
                = "nan"
         THEN {NaN}
         ELSE AnalyzeHurstValues
    ELSE AnalyzeHurstValues

AnalyzeRegimes ==
    {RegimeRecord(Some(2), <<10, 29, 61>>), RegimeRecord(Some(1), <<10, 80, 10>>)}

AnalyzeVolatilities == {10, 50}
AnalyzeSharpes == {0, 20, 200}

AnalyzePriceInputs ==
    {<<>>, <<100>>, Prices(RETURN_LAG - 1, 108), Prices(RETURN_LAG + 1, 95),
     Prices(RETURN_LAG + 1, 108)}

\* analysis_dict
AnalysisDict(r) ==
    [hurst_exponent |-> r.signal_processing,
     regime |-> r.regime,
     volatility |-> r.volatility,
     price_change_pct |-> r.price_change_pct,
     sharpe_ratio |-> r.sharpe_ratio,
     cointegration |-> r.cointegration]

InitAnalyze ==
    /\ pc = "fetch"
    /\ price_series \in AnalyzePriceInputs
    /\ include_signal_processing \in BOOLEAN
    /\ include_regime \in BOOLEAN
    /\ response = NoResponse
    /\ stage_log = <<>>
    /\ analysis = EmptyAnalysis
    /\ signals = <<>>
    /\ weights = <<>>
    /\ weights_array = <<>>
    /\ result = NoResult
    /\ exc = ""
    /\ series = <<>>
    /\ threshold = Whole(1)
    /\ FfdIdle
    /\ ScanIdle
    /\ HalfLifeIdle
    /\ HurstIdle
    /\ BatchIdle
    /\ ZScoreIdle

\* if df.empty: raise HTTPException(status_code=404, ...)
analyze_no_data ==
    /\ pc = "fetch"
    /\ price_series = <<>>
    /\ exc' = "HTTPException_404"
    /\ pc' = "analyze_raised"
    /\ UNCHANGED <<analysis, price_series, signals, weights, weights_array, result,
                   response, stage_log>>
    /\ UNCHANGED <<series, threshold, ffdVars, scanVars, halfLifeVars, hurstVars,
                   batchVars, zVars, include_signal_processing, include_regime>>

\* df['close'].iloc[-2] on a single row: IndexError, wrapped in a 500
analyze_price_change_raises ==
    /\ pc = "fetch"
    /\ Len(price_series) = 1
    /\ exc' = "HTTPException_500"
    /\ pc' = "analyze_raised"
    /\ UNCHANGED <<analysis, price_series, signals, weights, weights_array, result,
                   response, stage_log>>
    /\ UNCHANGED <<series, threshold, ffdVars, scanVars, halfLifeVars, hurstVars,
                   batchVars, zVars, include_signal_processing, include_regime>>

\* response = AnalysisResponse(..., price_change_pct=price_change_pct, metrics={})
analyze_fetched ==
    /\ pc = "fetch"
    /\ Len(price_series) >= 2
    /\ response' = [NoResponse EXCEPT !.price_change_pct = Some(PriceChangePct(price_series))]
    /\ pc' = "stationarity"
    /\ UNCHANGED stage_log
    /\ UNCHANGED <<series, threshold, fusionVars, ffdVars, scanVars, halfLifeVars,
                   hurstVars, batchVars, zVars, include_signal_processing, include_regime>>

\* 1. response.cointegration = combined_stationarity_test(df['close'])
stationarity_ok ==
    /\ pc = "stationarity"
    /\ \E v \in BOOLEAN : response' = [response EXCEPT !.cointegration = Some(v)]
    /\ stage_log' = Append(stage_log, [stage |-> "stationarity", raised |-> FALSE])
    /\ pc' = "volatility"
    /\ UNCHANGED <<series, threshold, fusionVars, ffdVars, scanVars, halfLifeVars,
                   hurstVars, batchVars, zVars, include_signal_processing, include_regime>>

\* 1. combined_stationarity_test raises: the except block only prints
stationarity_raises ==
    /\ pc = "stationarity"
    /\ stage_log' = Append(stage_log, [stage |-> "stationarity", raised |-> TRUE])
    /\ pc' = "volatility"
    /\ UNCHANGED response
    /\ UNCHANGED <<series, threshold, fusionVars, ffdVars, scanVars, halfLifeVars,
                   hurstVars, batchVars, zVars, include_signal_processing, include_regime>>

\* 2. response.volatility = forecast_volatility(returns, ...)
volatility_ok ==
    /\ pc = "volatility"
    /\ \E v \in AnalyzeVolatilities : response' = [response EXCEPT !.volatility = Some(v)]
    /\ stage_log' = Append(stage_log, [stage |-> "volatility", raised |-> FALSE])
    /\ pc' = "signal_processing"
    /\ UNCHANGED <<series, threshold, fusionVars, ffdVars, scanVars, halfLifeVars,
                   hurstVars, batchVars, zVars, include_signal_processing, include_regime>>

\* 2. forecast_volatility raises: the except block only prints
volatility_raises ==
    /\ pc = "volatility"
    /\ stage_log' = Append(stage_log, [stage |-> "volatility", raised |-> TRUE])
    /\ pc' = "signal_processing"
    /\ UNCHANGED response
    /\ UNCHANGED <<series, threshold, fusionVars, ffdVars, scanVars, halfLifeVars,
                   hurstVars, batchVars, zVars, include_signal_processing, include_regime>>

\* variant: a failure of the signal processing stage ends the request
signal_processing_raises_Aborts ==
    /\ pc = "signal_processing"
    /\ include_signal_processing
    /\ stage_log' = Append(stage_log, [stage |-> "signal_processing", raised |-> TRUE])
    /\ exc' = "HTTPException_500"
    /\ pc' = "analyze_raised"
    /\ UNCHANGED <<analysis, price_series, signals, weights, weights_array, result, response>>
    /\ UNCHANGED <<series, threshold, ffdVars, scanVars, halfLifeVars, hurstVars,
                   batchVars, zVars, include_signal_processing, include_regime>>

\* 3. if include_signal_processing: not taken
signal_processing_skipped ==
    /\ pc = "signal_processing"
    /\ ~include_signal_processing
    /\ pc' = "regime"
    /\ UNCHANGED <<response, stage_log>>
    /\ UNCHANGED <<series, threshold, fusionVars, ffdVars, scanVars, halfLifeVars,
                   hurstVars, batchVars, zVars, include_signal_processing, include_regime>>

\* 3. response.signal_processing = SignalProcessingResult(..., hurst_exponent=float(hurst))
signal_processing_ok ==
    /\ pc = "signal_processing"
    /\ include_signal_processing
    /\ \E v \in HurstOutcomes(price_series) : response' = [response EXCEPT !.signal_processing = Some(v)]
    /\ stage_log' = Append(stage_log, [stage |-> "signal_processing", raised |-> FALSE])
    /\ pc' = "regime"
    /\ UNCHANGED <<series, threshold, fusionVars, ffdVars, scanVars, halfLifeVars,
                   hurstVars, batchVars, zVars, include_signal_processing, include_regime>>

\* 3. a call of the signal processing stage raises: the except block only prints
signal_processing_raises ==
    /\ pc = "signal_processing"
    /\ include_signal_processing
    /\ stage_log' = Append(stage_log, [stage |-> "signal_processing", raised |-> TRUE])
    /\ pc' = "regime"
    /\ UNCHANGED response
    /\ UNCHANGED <<series, threshold, fusionVars, ffdVars, scanVars, halfLifeVars,
                   hurstVars, batchVars, zVars, include_signal_processing, include_regime>>

\* 4. if include_regime: not taken
regime_skipped ==
    /\ pc = "regime"
    /\ ~include_regime
    /\ pc' = "metrics"
    /\ UNCHANGED <<response, stage_log>>
    /\ UNCHANGED <<series, threshold, fusionVars, ffdVars, scanVars, halfLifeVars,
                   hurstVars, batchVars, zVars, include_signal_processing, include_regime>>

\* 4. response.regime = detect_regime(returns, n_states=3)
regime_ok ==
    /\ pc = "regime"
    /\ include_regime
    /\ \E v \in AnalyzeRegimes : response' = [response EXCEPT !.regime = Some(v)]
    /\ stage_log' = Append(stage_log, [stage |-> "regime", raised |-> FALSE])
    /\ pc' = "metrics"
    /\ UNCHANGED <<series, threshold, fusionVars, ffdVars, scanVars, halfLifeVars,
                   hurstVars, batchVars, zVars, include_signal_processing, include_regime>>

\* 4. detect_regime raises: the except block only prints
regime_raises ==
    /\ pc = "regime"
    /\ include_regime
    /\ stage_log' = Append(stage_log, [stage |-> "regime", raised |-> TRUE])
    /\ pc' = "metrics"
    /\ UNCHANGED response
    /\ UNCHANGED <<series, threshold, fusionVars, ffdVars, scanVars, halfLifeVars,
                   hurstVars, batchVars, zVars, include_signal_processing, include_regime>>

\* 5. response.metrics['sharpe_ratio'] = ... if returns.std() > 0 else 0.0
additional_metrics ==
    /\ pc = "metrics"
    /\ \E v \in AnalyzeSharpes : response' = [response EXCEPT !.sharpe_ratio = Some(v)]
    /\ pc' = "recommend"
    /\ UNCHANGED stage_log
    /\ UNCHANGED <<series, threshold, fusionVars, ffdVars, scanVars, halfLifeVars,
                   hurstVars, batchVars, zVars, include_signal_processing, include_regime>>

\* 6. the recommendation: analysis_dict, calculate_trading_signal, and the
\* except block that leaves response.recommendation unset; return response
trading_recommendation ==
    /\ pc = "recommend"
    /\ analysis' = AnalysisDict(response)
    /\ IF FusionRaises(AnalysisDict(response), price_series)
       THEN /\ response' = response
            /\ UNCHANGED <<signals, weights, weights_array, result>>
       ELSE /\ signals' = Signals(AnalysisDict(response), price_series)
            /\ weights' = Weights(AnalysisDict(response), price_series)
            /\ weights_array' = Normalize(Weights(AnalysisDict(response), price_series))
            /\ result' = TradingSignal(AnalysisDict(response), price_series)
            /\ response' = [response EXCEPT !.recommendation =
                                Some(TradingSignal(AnalysisDict(response), price_series))]
    /\ pc' = "analyze_done"
    /\ UNCHANGED <<price_series, exc, stage_log>>
    /\ UNCHANGED <<series, threshold, ffdVars, scanVars, halfLifeVars, hurstVars,
                   batchVars, zVars, include_signal_processing, include_regime>>

NextAnalyze ==
    \/ analyze_no_data
    \/ analyze_price_change_raises
    \/ analyze_fetched
    \/ stationarity_ok
    \/ stationarity_raises
    \/ volatility_ok
    \/ volatility_raises
    \/ signal_processing_skipped
    \/ signal_processing_ok
    \/ signal_processing_raises
    \/ regime_skipped
    \/ regime_ok
    \/ regime_raises
    \/ additional_metrics
    \/ trading_recommendation

SpecAnalyze == InitAnalyze /\ [][NextAnalyze]_vars

(***************************************************************************)
(* The core operations together: one call of any of fractional_diff,       *)
(* find_min_ffd, calculate_hurst_exponent, calculate_half_life,            *)
(* calculate_z_score or calculate_trading_signal.                          *)
(***************************************************************************)
InitCore ==
    \/ InitFfd
    \/ InitScan
    \/ InitHurst
    \/ InitHalfLife
    \/ InitZScore
    \/ InitFusion

NextCore ==
    \/ NextFfd
    \/ NextScan
    \/ NextHurst
    \/ NextHalfLife
    \/ NextZScore
    \/ NextFusion

SpecCore == InitCore /\ [][NextCore]_vars

(***************************************************************************)
(* Properties of calculate_trading_signal (checked under SpecFusion).      *)
(***************************************************************************)
Returned == pc = "returned"

\* the weighted average S of the contributed signals, as SNum / SDen
SNum == DotSeq(signals, weights)
SDen == 10 * SumSeq(weights)

\* the 20-period return of the price series is +0.08
ReturnIsPlus8 ==
    /\ Len(price_series) >= RETURN_LAG
    /\ 100 * (Iloc(price_series, -1) - Iloc(price_series, -RETURN_LAG))
           = 8 * Iloc(price_series, -RETURN_LAG)

HurstOnly(h) == [EmptyAnalysis EXCEPT !.hurst_exponent = Some(h)]

\* C1: a call with none of the five factors supplied returns exactly HOLD,
\* confidence 0, signal_strength 0 and the insufficient-data reasoning.
C1_NoFactorsInsufficientData ==
    (Returned /\ analysis = EmptyAnalysis) => result = InsufficientData

\* C2: with only the Hurst exponent supplied, H = 0.30, and a 20-period
\* return of +0.08, the result is SELL with signal_strength -1 and
\* confidence 100.
C2_HurstOnlySellFullWeight ==
    (Returned /\ analysis = HurstOnly(30) /\ ReturnIsPlus8)
        => /\ result.recommendation = "SELL"
           /\ result.signal_strength = -1000
           /\ result.confidence = 1000

\* the weights of the factors whose input is supplied, in the order of the code
SuppliedWeights(a) ==
    (IF IsNone(a.hurst_exponent) THEN <<>> ELSE <<W_HURST>>)
        \o (IF IsNone(a.regime) THEN <<>> ELSE <<W_REGIME>>)
        \o (IF IsNone(a.volatility) THEN <<>> ELSE <<W_VOLATILITY>>)
        \o (IF IsNone(a.sharpe_ratio) /\ IsNone(a.price_change_pct)
            THEN <<>> ELSE <<W_MOMENTUM>>)
        \o (IF IsNone(a.cointegration) THEN <<>> ELSE <<W_STATISTICAL>>)

\* C3: a factor whose input is absent appends neither a signal nor a weight:
\* the weight list is that of the supplied factors, and the signal list has
\* the same length.
C3_AbsentFactorsOmitted ==
    Returned => /\ weights = SuppliedWeights(analysis)
                /\ Len(signals) = Len(weights)

RECURSIVE FSum(_)
FSum(fs) == IF fs = <<>> THEN Whole(0) ELSE FAdd(fs[1], FSum(Tail(fs)))

\* C4: whenever at least one factor contributes, the entries of the
\* normalised weight array are the raw weights divided by their sum, and
\* they add up to exactly 1.
C4_NormalizedWeightsSumToOne ==
    (Returned /\ signals # <<>>)
        => /\ Len(weights_array) = Len(weights)
           /\ \A i \in 1..Len(weights) :
                  weights_array[i].num * SumSeq(weights) = weights[i] * weights_array[i].den
           /\ FSum(weights_array) = Whole(1)

C4_Witness ==
    Returned /\ Len(weights_array) = 2 /\ weights = <<W_HURST, W_MOMENTUM>>

\* min(|S| * 100, 100) and 100 - |S| * 100, as numerators over SDen
DirectionalConfNum == Min(100 * Abs(SNum), 100 * SDen)
HoldConfNum == 100 * SDen - 100 * Abs(SNum)

\* the returned confidence (tenths) is exactly confNum / SDen
ConfidenceIsExactly(confNum) == result.confidence * SDen = 10 * confNum

\* the returned confidence is confNum / SDen rounded to the nearest tenth
ConfidenceIsRounded(confNum) == 2 * Abs(result.confidence * SDen - 10 * confNum) <= SDen

\* C5 (as stated): BUY with confidence min(|S|*100, 100) when S > 0.3, SELL
\* with the same confidence when S < -0.3, otherwise HOLD with confidence
\* 100 - |S|*100; the returned confidence is exactly that value.
C5_DecisionRuleExactConfidence ==
    (Returned /\ signals # <<>>)
        => IF 10 * SNum > 3 * SDen
           THEN result.recommendation = "BUY" /\ ConfidenceIsExactly(DirectionalConfNum)
           ELSE IF 10 * SNum < -3 * SDen
           THEN result.recommendation = "SELL" /\ ConfidenceIsExactly(DirectionalConfNum)
           ELSE result.recommendation = "HOLD" /\ ConfidenceIsExactly(HoldConfNum)

\* C5 (amended): the same decision rule, the returned confidence being the
\* stated value rounded to one decimal place.
C5_DecisionRuleRoundedConfidence ==
    (Returned /\ signals # <<>>)
        => IF 10 * SNum > 3 * SDen
           THEN result.recommendation = "BUY" /\ ConfidenceIsRounded(DirectionalConfNum)
           ELSE IF 10 * SNum < -3 * SDen
           THEN result.recommendation = "SELL" /\ ConfidenceIsRounded(DirectionalConfNum)
           ELSE result.recommendation = "HOLD" /\ ConfidenceIsRounded(HoldConfNum)

\* S is exactly 0.3 and the call returned HOLD with confidence 70
C5_Witness ==
    /\ Returned
    /\ signals # <<>>
    /\ 10 * SNum = 3 * SDen
    /\ result.recommendation = "HOLD"
    /\ result.confidence = 700

SignalValues == {-10, -5, 0, 5, 10}

\* C6: every returned result has recommendation in {BUY, SELL, HOLD},
\* confidence in [0, 100] and signal_strength in [-1, 1], and every factor
\* signal is one of -1, -0.5, 0, 0.5, 1.
C6_ResultRanges ==
    Returned
        => /\ result.recommendation \in {"BUY", "SELL", "HOLD"}
           /\ result.confidence >= 0 /\ result.confidence <= 1000
           /\ result.signal_strength >= -1000 /\ result.signal_strength <= 1000
           /\ \A i \in 1..Len(signals) : signals[i] \in SignalValues

\* a HOLD with a negative weighted signal over at least three factors
C6_Witness ==
    /\ Returned
    /\ Len(signals) >= 3
    /\ result.recommendation = "HOLD"
    /\ result.signal_strength < 0
    /\ result.confidence < 1000

(***************************************************************************)
(* Properties of fractional_diff (checked under SpecFfd).                  *)
(***************************************************************************)
FfdDone == pc = "ffd_done"

\* C7: with d = 0 the weight vector is exactly [1] (width 1) and every
\* output value equals the input value at the same position.
C7_ZeroOrderIsIdentity ==
    (FfdDone /\ d = Whole(0))
        => /\ fd_weights = <<Whole(1)>>
           /\ width = 1
           /\ \A j \in 1..Len(ffd_series) :
                  ffd_series[j].val = Whole(At(series, ffd_series[j].pos))

\* C8: the value emitted at position i >= width is the dot product of the
\* reversed weights with the width input values whose last one is the value
\* at position i itself.
C8_WindowEndsAtPosition ==
    FfdDone
        => \A j \in 1..Len(ffd_series) :
               LET i == ffd_series[j].pos
               IN  /\ i >= width
                   /\ ffd_series[j].val = FDot(fd_weights, Slice(series, i - width + 1, i + 1))

\* C9: the output has exactly max(0, n - width) values, at the input
\* positions width .. n-1; a series of fewer than width + 1 points gives an
\* empty output.
C9_ShortSeriesEmptyOutput ==
    FfdDone
        => /\ Len(ffd_series) = Max(0, Len(series) - width)
           /\ \A j \in 1..Len(ffd_series) : ffd_series[j].pos = width + j - 1
           /\ (Len(series) < width + 1 => ffd_series = <<>>)

\* a nonempty series of fewer than width + 1 points went through the call
C9_Witness ==
    FfdDone /\ series # <<>> /\ Len(series) < width + 1 /\ ffd_series = <<>>

\* the weights were built: fd_weights holds them last weight first
WeightsBuilt == pc \in {"apply", "ffd_done"}

\* C22: the magnitudes of the weights do not increase past the first two
\* terms, and every weight kept in the vector has a magnitude not below the
\* threshold (the first weight below the threshold is not kept).
C22_WeightsMonotoneAboveThreshold ==
    WeightsBuilt
        => LET w == Reverse(fd_weights)
           IN  /\ \A j \in 3..(Len(w) - 1) : ~FGT(FAbs(w[j + 1]), FAbs(w[j]))
               /\ \A j \in 1..Len(w) : ~FLT(FAbs(w[j]), threshold)

\* C23: the weight loop terminates for every order and threshold, and the
\* length of the weight vector is the one determined by (d, threshold) alone.
C23_WeightLoopTerminates ==
    (pc = "weights") ~> (pc = "apply" /\ width = Len(FdWeights(d, threshold)))

\* the loop ended on a weight that is exactly 0 (integer order)
C23_Witness ==
    /\ pc = "apply"
    /\ d = Whole(2)
    /\ width = 4
    /\ fd_weights[1] = Whole(0)

\* the loop ended at once: with threshold 1 only w[0] is produced
C23_WitnessUnitThreshold ==
    /\ pc = "apply"
    /\ threshold = Whole(1)
    /\ fd_weights = <<Whole(1)>>

(***************************************************************************)
(* Properties of find_min_ffd (checked under SpecScan).                    *)
(***************************************************************************)
ScanDone == pc = "scan_done"

Qualifies(c) == Len(FractionalDiff(series, Tenths(c), threshold)) >= MIN_POINTS

Passing == {j \in 1..Len(adf_calls) : adf_calls[j].stationary}

\* C10: the candidates are tested in ascending order; when a test reports
\* success the call returns that candidate, which is the first success and
\* the last test made; every smaller candidate with at least 10 points was
\* tested and failed, and no candidate with fewer than 10 points is tested.
C10_ScanReturnsFirstSuccess ==
    /\ \A i, j \in 1..Len(adf_calls) : i < j => adf_calls[i].d < adf_calls[j].d
    /\ \A j \in 1..Len(adf_calls) : Qualifies(adf_calls[j].d)
    /\ (Passing # {}) => /\ ScanDone
                         /\ Passing = {Len(adf_calls)}
                         /\ d_min = Some(adf_calls[Len(adf_calls)].d)
    /\ (ScanDone /\ Passing # {})
           => \A c \in 0..(d_min[1] - 1) :
                  Qualifies(c) => \E j \in 1..Len(adf_calls) :
                                      adf_calls[j].d = c /\ ~adf_calls[j].stationary

\* the scan returned a candidate after a skipped one and a failed one
C10_Witness ==
    /\ ScanDone
    /\ Passing # {}
    /\ Len(adf_calls) >= 2
    /\ d_min[1] > Len(adf_calls) - 1

\* C11: when no candidate qualifies (each one is skipped or fails the test,
\* or there is no candidate at all) the call returns max_d exactly.
C11_ExhaustedScanReturnsMaxD ==
    (ScanDone /\ Passing = {}) => d_min = Some(max_d)

\* a scan over ten candidates, some skipped and some failed, returned max_d
C11_Witness ==
    /\ ScanDone
    /\ Passing = {}
    /\ Len(adf_calls) >= 1
    /\ Len(adf_calls) < Len(Candidates(max_d))
    /\ d_min = Some(max_d)

\* C16: no call of calculate_trading_signal ends with an exception, whatever
\* the factor record: not with a Hurst exponent outside [0.45, 0.55] and
\* fewer than 20 prices, and not with a regime record without a current
\* regime id or with fewer posteriors than that id.
C16_NeverPropagatesException == pc # "raised"

\* rank of a reasoning chunk in the order Hurst, regime, volatility, Sharpe
PartRank(c) ==
    IF c.text \in {"Mean reverting (H=%.2f)", "Trending (H=%.2f)"} THEN 1
    ELSE IF c.text \in {BearDesc, SideDesc, BullDesc} THEN 2
    ELSE IF c.text \in {"High volatility (%.1f%%)", "Low volatility (%.1f%%)"} THEN 3
    ELSE IF c.text \in {"Strong Sharpe (%.2f)", "Weak Sharpe (%.2f)"} THEN 4
    ELSE 0

\* C17: the parts of the reasoning appear in the order Hurst label, regime
\* description, volatility level, Sharpe strength, each at most once.
C17_ReasoningOrder ==
    Returned
        => \A i, j \in 1..Len(result.reasoning) :
               (i < j /\ PartRank(result.reasoning[i]) > 0
                      /\ PartRank(result.reasoning[j]) > 0)
                   => PartRank(result.reasoning[i]) < PartRank(result.reasoning[j])

\* a reasoning with all four parts
C17_Witness ==
    /\ Returned
    /\ {PartRank(result.reasoning[i]) : i \in 1..Len(result.reasoning)} = 0..4

\* the signals appended together with weight w
SignalsOf(w) == {signals[i] : i \in {j \in 1..Len(weights) : weights[j] = w}}

\* the Hurst signal of the rule: contrarian outside the 5% band for
\* H < 0.45, the sign of the 20-period return for H > 0.55, else 0
RuleHurstSignal ==
    LET h == analysis.hurst_exponent[1]
    IN  IF h < HURST_LOW
        THEN IF ReturnGT(price_series, RETURN_BAND) THEN SELL_SIG
             ELSE IF ReturnLT(price_series, -RETURN_BAND) THEN BUY_SIG
             ELSE NEUTRAL_SIG
        ELSE IF h > HURST_HIGH
        THEN IF ReturnGT(price_series, 0) THEN BUY_SIG
             ELSE IF ReturnLT(price_series, 0) THEN SELL_SIG
             ELSE NEUTRAL_SIG
        ELSE NEUTRAL_SIG

\* C18: the Hurst signal is -1 / +1 / 0 by the 5% band for H < 0.45, the
\* sign of the 20-period return (0 for a zero return) for H > 0.55, and 0
\* for 0.45 <= H <= 0.55.
C18_HurstSignalRule ==
    (Returned /\ ~IsNone(analysis.hurst_exponent))
        => SignalsOf(W_HURST) = {RuleHurstSignal}

\* the momentum signal of the rule
RuleMomentumSignal ==
    LET sharpe == analysis.sharpe_ratio[1]
        price_change == Get(analysis.price_change_pct, 0)
    IN  IF sharpe > SHARPE_HIGH
        THEN IF price_change > 0 THEN BUY_SIG ELSE HALF_BUY_SIG
        ELSE IF sharpe < SHARPE_LOW
        THEN IF price_change < 0 THEN SELL_SIG ELSE HALF_SELL_SIG
        ELSE NEUTRAL_SIG

\* C19: the momentum signal is +1 / +0.5 for Sharpe > 1.5, -1 / -0.5 for
\* Sharpe < 0.5 and 0 in between, and the momentum factor contributes only
\* when a Sharpe ratio is supplied.
C19_MomentumSignalRule ==
    Returned
        => IF IsNone(analysis.sharpe_ratio) THEN SignalsOf(W_MOMENTUM) = {}
           ELSE SignalsOf(W_MOMENTUM) = {RuleMomentumSignal}

\* the stationarity signal of the rule
RuleStationaritySignal ==
    LET is_stationary == analysis.cointegration[1]
        price_change == Get(analysis.price_change_pct, 0)
    IN  IF ~is_stationary /\ Abs(price_change) > TREND_MOVE
        THEN (IF price_change > 0 THEN BUY_SIG ELSE SELL_SIG)
        ELSE IF is_stationary /\ Abs(price_change) > REVERT_MOVE
        THEN (IF price_change > 0 THEN SELL_SIG ELSE BUY_SIG)
        ELSE NEUTRAL_SIG

\* C20: the stationarity signal follows the sign of the price change when
\* the series is non-stationary and the change exceeds 2%, fades it when the
\* series is stationary and the change exceeds 3%, and is 0 otherwise.
C20_StationaritySignalRule ==
    (Returned /\ ~IsNone(analysis.cointegration))
        => SignalsOf(W_STATISTICAL) = {RuleStationaritySignal}

\* a stationary series with a change between the two bands got signal 0
C20_Witness ==
    /\ Returned
    /\ analysis.cointegration = Some(TRUE)
    /\ analysis.price_change_pct = Some(REVERT_MOVE)
    /\ SignalsOf(W_STATISTICAL) = {NEUTRAL_SIG}

\* the regime signal of the rule, from the description and the posterior
\* of the current regime id
RuleRegimeSignal ==
    LET regime == analysis.regime[1]
        id == regime.current_regime[1]
        label == IF id \in DOMAIN regime.regime_descriptions
                 THEN regime.regime_descriptions[id] ELSE ""
        posterior == regime.regime_probabilities[id + 1]
    IN  IF label = BullDesc /\ posterior > REGIME_PROB_MIN THEN BUY_SIG
        ELSE IF label = BearDesc /\ posterior > REGIME_PROB_MIN THEN SELL_SIG
        ELSE NEUTRAL_SIG

\* C21: the regime signal is +1 for a Bull-labeled current regime with
\* posterior > 0.6, -1 for a Bear-labeled one with posterior > 0.6, and 0
\* otherwise; the posterior is the one of the current regime id.
C21_RegimeSignalRule ==
    (Returned /\ ~IsNone(analysis.regime))
        => SignalsOf(W_REGIME) = {RuleRegimeSignal}

\* a Bull-labeled current regime with posterior exactly 0.6 got signal 0
C21_Witness ==
    /\ Returned
    /\ ~IsNone(analysis.regime)
    /\ analysis.regime[1].current_regime = Some(2)
    /\ analysis.regime[1].regime_probabilities = <<10, 30, 60>>
    /\ SignalsOf(W_REGIME) = {NEUTRAL_SIG}

\* the candidates the scan has gone past
Visited == {Candidates(max_d)[i] : i \in 1..Min(cand - 1, Len(Candidates(max_d)))}

Tested == {adf_calls[j].d : j \in 1..Len(adf_calls)}

\* C24: a candidate whose differentiated series has fewer than 10 points is
\* never handed to the stationarity test and never returned as d_min, and
\* the scan goes on: every later candidate with enough points is tested.
C24_ShortCandidatesSkipped ==
    /\ \A c \in Visited : Qualifies(c) <=> c \in Tested
    /\ \A c \in Tested : Qualifies(c)
    /\ (ScanDone /\ d_min # Some(max_d)) => Qualifies(d_min[1])
    /\ (ScanDone /\ Passing = {}) => cand = Len(Candidates(max_d)) + 1

\* a candidate was skipped and a larger candidate was then tested
C24_Witness ==
    \E c \in Visited :
        /\ ~Qualifies(c)
        /\ \E t \in Tested : t > c

\* C28: when a factor contributed, a HOLD has confidence at least 70, a BUY
\* or SELL has confidence above 30 and at most 100, a BUY has a weighted
\* signal above 0.3 and a SELL one below -0.3 (before rounding).
C28_ConfidenceBands ==
    (Returned /\ signals # <<>>)
        => /\ result.recommendation = "HOLD" => result.confidence >= 700
           /\ result.recommendation \in {"BUY", "SELL"}
                  => (result.confidence > 300 /\ result.confidence <= 1000)
           /\ result.recommendation = "BUY" => 10 * SNum > 3 * SDen
           /\ result.recommendation = "SELL" => 10 * SNum < -3 * SDen

\* a SELL close to the threshold, and so with a confidence close to 30
C28_Witness ==
    /\ Returned
    /\ result.recommendation = "SELL"
    /\ result.confidence < 320

\* C30: the returned reasoning is never the empty string: it is the
\* insufficient-data message, the fallback text, or a joined list with at
\* least one non-empty factor explanation.
C30_ReasoningNeverEmpty ==
    Returned
        => /\ result.reasoning # EmptyStr
           /\ \/ result.reasoning = Text("Insufficient data for recommendation")
              \/ result.reasoning = Text("Based on technical analysis")
              \/ \E i \in 1..Len(result.reasoning) : PartRank(result.reasoning[i]) > 0

(***************************************************************************)
(* Properties of calculate_half_life (checked under SpecHalfLife).         *)
(***************************************************************************)
HalfLifeDone == pc = "half_life_done"

\* sums of the centred regressor, scaled by the square of the sample size
CentredXX ==
    LET x == SpreadLag(spread)
    IN  SumSeq([i \in 1..Len(x) |-> (Len(x) * x[i] - SumSeq(x)) * (Len(x) * x[i] - SumSeq(x))])
CentredXY ==
    LET x == SpreadLag(spread)
        y == SpreadDiff(spread)
    IN  SumSeq([i \in 1..Len(x) |-> (Len(x) * x[i] - SumSeq(x)) * (Len(y) * y[i] - SumSeq(y))])

\* C12: theta is the slope of the regression of the first difference on the
\* lagged level; the call returns +infinity when theta >= 0 and -ln(2)/theta,
\* strictly positive and finite, when theta < 0; never a negative or zero
\* half-life.
C12_HalfLifeSignRule ==
    HalfLifeDone
        => /\ theta.num * CentredXX = theta.den * CentredXY
           /\ theta.num >= 0 => half_life.inf
           /\ theta.num < 0 => /\ ~half_life.inf
                               /\ FMul(half_life.ln2_times, theta) = Whole(-1)
           /\ ~half_life.inf => half_life.ln2_times.num > 0

\* a mean-reverting spread got a finite half-life
C12_Witness ==
    /\ HalfLifeDone
    /\ theta.num < 0
    /\ ~half_life.inf
    /\ half_life.ln2_times.num > 0

(***************************************************************************)
(* Properties of calculate_hurst_exponent (checked under SpecHurst).       *)
(***************************************************************************)
HurstDone == pc = "hurst_done"

\* the lags of range(2, max_lag) for which the rolling windows exist
LagsWithStatistic == {lg \in 2..(max_lag - 1) : lg <= Len(series)}

C13_WitnessDefault ==
    /\ HurstDone
    /\ max_lag >= 3
    /\ hurst_out.kind = "number"

IsFlat(s) == \A i \in 1..Len(s) : s[i] = s[1]

\* C14: for a flat series the call returns, every statistic of a lag with
\* zero mean rolling deviation is 0, and the value returned is the documented
\* default 0.5.
C14_FlatSeriesReturnsDefault ==
    (HurstDone /\ IsFlat(series))
        => /\ \A i \in 1..Len(tau) : tau[i] = ZeroRS
           /\ hurst_out = [kind |-> "number", value |-> HURST_DEFAULT, points |-> <<>>]

\* C29: for a series of at least 2 points and max_lag >= 3, every rescaled
\* range that enters the fit is strictly positive, and it is paired with the
\* lag it was computed for.
C29_FittedRangesPositive ==
    (HurstDone /\ Len(series) >= 2 /\ max_lag >= 3)
        => \A i \in 1..Len(hurst_out.points) :
               /\ hurst_out.points[i].rs.range.num > 0
               /\ hurst_out.points[i].rs = RescaledRange(series, hurst_out.points[i].lag)

(***************************************************************************)
(* Properties of batch_analyze (checked under SpecBatch).                  *)
(***************************************************************************)
BatchDone == pc = "batch_done"

\* the responses of the symbols whose analysis succeeded, in request order
RECURSIVE Succeeded(_, _)
Succeeded(syms, outs) ==
    IF Len(syms) = 0 \/ Len(outs) = 0 THEN <<>>
    ELSE LET rest == Succeeded(SubSeq(syms, 1, Len(syms) - 1), SubSeq(outs, 1, Len(outs) - 1))
         IN  IF outs[Len(outs)] = "ok" /\ Len(outs) = Len(syms)
             THEN Append(rest, [symbol |-> syms[Len(syms)]])
             ELSE rest

\* C15: a failing symbol does not abort the batch: the call returns, every
\* symbol of the request was analyzed, and the returned list holds exactly
\* the responses of the symbols that succeeded, in request order.
C15_BatchSkipsFailedSymbols ==
    /\ pc \in {"batch_loop", "batch_done"}
    /\ BatchDone
        => /\ Len(outcomes) = Len(symbols)
           /\ results = Succeeded(symbols, outcomes)

\* a batch whose first symbol failed and whose later symbol succeeded
C15_Witness ==
    /\ BatchDone
    /\ Len(symbols) >= 2
    /\ outcomes[1] \in AnalyzeFailures
    /\ outcomes[Len(outcomes)] = "ok"
    /\ Len(results) >= 1

(***************************************************************************)
(* Properties of calculate_z_score (checked under SpecZScore).             *)
(***************************************************************************)
ZScoreDone == pc = "z_score_done"

\* the values of the trailing window that ends at position p
Trailing(p) == [j \in 1..z_window |-> spread[p - z_window + j]]

\* the trailing window has zero standard deviation
ZeroDeviation(p) == \A j \in 1..z_window : Trailing(p)[j] = Trailing(p)[1]

\* C27: the z-score has the length of the spread; it is undefined on the
\* first window-1 positions and wherever the trailing window has zero
\* standard deviation (never infinite), and elsewhere it is
\* (spread - rolling mean) / rolling std over the trailing window.
C27_ZScoreUndefinedOrStandardised ==
    ZScoreDone
        => /\ Len(z_score) = Len(spread)
           /\ \A p \in 1..Len(z_score) :
                  IF p < z_window THEN z_score[p] = ZNaN
                  ELSE IF ZeroDeviation(p) THEN z_score[p] = ZNaN
                  ELSE /\ z_score[p].kind = "num"
                       /\ z_score[p].dev.num * z_window
                              = z_score[p].dev.den
                                    * (z_window * spread[p] - SumSeq(Trailing(p)))
                       /\ z_score[p].var.num * z_window * (z_window - 1)
                              = z_score[p].var.den
                                    * (z_window * DotSeq(Trailing(p), Trailing(p))
                                           - SumSeq(Trailing(p)) * SumSeq(Trailing(p)))

\* a spread with a warm-up position, a flat window and a standardised value
C27_Witness ==
    /\ ZScoreDone
    /\ \E p \in z_window..Len(z_score) : ZeroDeviation(p) /\ z_score[p] = ZNaN
    /\ \E p \in 1..Len(z_score) : z_score[p].kind = "num" /\ z_score[p].dev.num # 0

(***************************************************************************)
(* Properties of the core operations together (checked under SpecCore).    *)
(***************************************************************************)
\* C26: no step of a core operation changes an input: the input series, the
\* spread, the analysis record and the price series keep their values while
\* the results are built in variables of their own.
C26_InputsNeverMutated ==
    [][/\ series' = series
       /\ spread' = spread
       /\ analysis' = analysis
       /\ price_series' = price_series]_vars

\* fractional_diff has returned a non-empty result built from the series
C26_Witness ==
    /\ pc = "ffd_done"
    /\ ffd_series # <<>>
    /\ \E j \in 1..Len(fd_result) : fd_result[j] # None /\ fd_result[j] # Some(Whole(series[j]))

(***************************************************************************)
(* Properties of analyze_symbol (checked under SpecAnalyze).               *)
(***************************************************************************)
AnalyzeDone == pc = "analyze_done"

StageNames == [i \in 1..Len(stage_log) |-> stage_log[i].stage]
StageRaised(name) == \E i \in 1..Len(stage_log) : stage_log[i] = [stage |-> name, raised |-> TRUE]
StageSucceeded(name) ==
    \E i \in 1..Len(stage_log) : stage_log[i] = [stage |-> name, raised |-> FALSE]

\* the analytic stages the request asks for, in their order
RequestedStages ==
    <<"stationarity", "volatility">>
        \o (IF include_signal_processing THEN <<"signal_processing">> ELSE <<>>)
        \o (IF include_regime THEN <<"regime">> ELSE <<>>)

\* the response field each analytic stage assigns
StageField(name) ==
    IF name = "stationarity" THEN response.cointegration
    ELSE IF name = "volatility" THEN response.volatility
    ELSE IF name = "signal_processing" THEN response.signal_processing
    ELSE response.regime

\* the factor record of the stages that succeeded
RemainingFactors ==
    [hurst_exponent |-> IF StageSucceeded("signal_processing")
                        THEN response.signal_processing ELSE None,
     regime |-> IF StageSucceeded("regime") THEN response.regime ELSE None,
     volatility |-> IF StageSucceeded("volatility") THEN response.volatility ELSE None,
     price_change_pct |-> response.price_change_pct,
     sharpe_ratio |-> response.sharpe_ratio,
     cointegration |-> IF StageSucceeded("stationarity")
                       THEN response.cointegration ELSE None]

\* the weights of the factors of the stages that succeeded, and momentum
RemainingWeights ==
    (IF StageSucceeded("signal_processing") THEN <<W_HURST>> ELSE <<>>)
        \o (IF StageSucceeded("regime") THEN <<W_REGIME>> ELSE <<>>)
        \o (IF StageSucceeded("volatility") THEN <<W_VOLATILITY>> ELSE <<>>)
        \o <<W_MOMENTUM>>
        \o (IF StageSucceeded("stationarity") THEN <<W_STATISTICAL>> ELSE <<>>)

\* C25: whichever analytic stages raise, every later requested stage still
\* runs, a failed stage leaves its response field unset and adds no factor
\* to the fusion call, and the response is returned with a recommendation
\* computed from the remaining factors; the request fails only before the
\* first stage.
C25_StageFailuresAreIsolated ==
    /\ pc = "analyze_raised" => stage_log = <<>>
    /\ \A name \in {"stationarity", "volatility", "signal_processing", "regime"} :
           StageRaised(name) => IsNone(StageField(name))
    /\ pc \in {"metrics", "recommend", "analyze_done"} => StageNames = RequestedStages
    /\ AnalyzeDone
           => /\ weights = RemainingWeights
              /\ ~IsNone(response.recommendation)
              /\ response.recommendation = Some(TradingSignal(RemainingFactors, price_series))

\* two stages raised, a later one succeeded, and the response was returned
C25_Witness ==
    /\ AnalyzeDone
    /\ StageRaised("stationarity")
    /\ StageRaised("signal_processing")
    /\ StageSucceeded("regime")
    /\ ~IsNone(response.recommendation)

\* all four stages raised on a short price series
C25_WitnessAllRaised ==
    /\ AnalyzeDone
    /\ \A name \in {"stationarity", "volatility", "signal_processing", "regime"} :
           StageRaised(name)
    /\ Len(price_series) < RETURN_LAG
    /\ response.recommendation # None

====
